---- MODULE Spec2Model ----
(***************************************************************************)
(* phrack-reader (src/phrack.go): the session record `phracked`, the load  *)
(* pipeline (fetchIssue, writeToFile, unpack, buildUI), the supervising    *)
(* select loop of load(), the gocui main loop with its key handlers, and   *)
(* the shutdown sequence of main().                                        *)
(*                                                                         *)
(* Goroutines are processes with a program counter each.  One action is    *)
(* one statement that touches shared state (a channel operation, a file    *)
(* system call, a view update) together with the local code around it.     *)
(* Strings are sequences of tokens, so that suffix tests and concatenation *)
(* are computed and not assumed.  Temporary directories, channels, file    *)
(* handles and responses are named by the number of the init() / load()    *)
(* that created them; 0 is the zero value ("" or nil).                     *)
(*                                                                         *)
(* init() called by loadIssue runs statement by statement next to the      *)
(* goroutines of earlier loads, and io.Copy moves the body chunk by chunk  *)
(* between the arguments it was called with.  cleanFatal is phracked.clean *)
(* and then log.Fatal: the goroutine that called it stands in log.Fatal    *)
(* while the others run, until os.Exit ends the process.  updateMainFile   *)
(* is ioutil.ReadFile and then the write of the main view, and initSide    *)
(* writes the side view before it calls updateMainFile.                    *)
(*                                                                         *)
(* Time: a clock tick is 1/TicksPerSec of a second.  The network and file   *)
(* I/O of the pipeline and the keys of the user may take any number of     *)
(* ticks.  g.Execute starts a goroutine for every function it is given,    *)
(* so the functions that are pending reach the main loop in any order.     *)
(*                                                                         *)
(* Spec is the whole program.  Its state space is beyond exhaustive        *)
(* search, so the properties are checked under specifications that are     *)
(* Spec with the environment (user, terminal, network, disk, scheduler)    *)
(* restricted as the comment of each one says; each has every step of the  *)
(* program that can be taken under its restriction.  Where the clock runs  *)
(* the scheduler is timely: a goroutine that can run does so before the    *)
(* next tick.                                                              *)
(***************************************************************************)
EXTENDS Integers, Sequences, FiniteSets, TLC

\* ---- bounds of the model
MaxLoads == 2
MaxFillers == 2
TicksPerSec == 2
MaxPos == 1

\* ---- program constants
ChanCap == 1
StatusLastRow == 3

\* the loads of the longest run any specification allows
MaxRaceLoads == MaxLoads + 1
Loads == 1..MaxRaceLoads

\* ---- strings
TarGz == <<".", "t", "a", "r", ".", "g", "z">>
DotTxt == <<".", "t", "x", "t">>
LoadLine == <<"l", "o", "a", "d">>
LoadingLine == <<"Loading...">>
DigitChars == <<"0", "1", "2", "3", "4", "5", "6", "7", "8", "9">>
UrlBase == <<"http://www.phrack.org/archives/tgz/phrack">>
TitleBase == <<"Phrack Issue #">>
DirTok == [d \in 0..MaxRaceLoads |-> IF d = 0 THEN "" ELSE "tmpdir"]

\* strings.HasSuffix
HasSuffix(s, suf) ==
  /\ Len(s) >= Len(suf)
  /\ \A i \in 1..Len(suf) : s[Len(s) - Len(suf) + i] = suf[i]

\* strconv.Itoa for the page numbers written to the side view
RECURSIVE Itoa(_)
Itoa(i) == IF i < 10 THEN <<DigitChars[i + 1]>>
           ELSE Itoa(i \div 10) \o <<DigitChars[(i % 10) + 1]>>

\* a character of the class 0-9
IsDigit(c) == \E i \in 1..Len(DigitChars) : DigitChars[i] = c

\* a sanitizer that drops the non-digits at the two ends only
RECURSIVE SanitizeTrim(_)
SanitizeTrim(s) ==
  IF s = <<>> THEN <<>>
  ELSE IF ~IsDigit(Head(s)) THEN SanitizeTrim(Tail(s))
  ELSE IF ~IsDigit(s[Len(s)]) THEN SanitizeTrim(SubSeq(s, 1, Len(s) - 1))
  ELSE s

\* regexp "[^0-9]+" with ReplaceAllString(vb, ""): every non-digit is dropped
RECURSIVE Sanitize(_)
Sanitize(s) == IF s = <<>> THEN <<>>
               ELSE IF IsDigit(Head(s)) THEN <<Head(s)>> \o Sanitize(Tail(s))
               ELSE Sanitize(Tail(s))

\* the status strings sent on p.status
NL == "\n"
MsgFetching(url) == <<"Fetching ">> \o url \o <<"...">>
MsgDownloaded == <<NL, "Download Complete...", NL>>
MsgWrote(path) == <<"Wrote to ", DirTok[path.dir], "/">> \o path.name \o <<NL>>
MsgUnpacking == <<"Unpacking tar.gz...">>
MsgUnpacked == <<"Issue unpacked", NL>>
MsgBuilding == <<"Building UI", NL>>
MsgDone == <<"done">>
MsgFiller == <<".">>

\* ---- inputs
File(n) == [name |-> n, kind |-> "file"]
Dir(n) == [name |-> n, kind |-> "dir"]
Bad == [name |-> <<>>, kind |-> "bad"]
Page1 == <<"1">> \o DotTxt
Page2 == <<"2">> \o DotTxt
SubDir == <<"s", "u", "b">>
\* an archive of a directory and the first page
GoodArchive == { <<Dir(SubDir), File(Page1)>> }
\* the archives the server may answer with: GoodArchive, an archive with a
\* page but not the first, or a stream that tar.Reader rejects
Archives == GoodArchive \cup { <<File(Page2)>>, <<Bad>> }
\* what the user may have typed into the prompt
Typed == { <<"2", "a", "0">> }
\* the issue func init() starts with: "1" when the command line has no
\* argument, else os.Args[1] as it is
ArgIssues == { <<"1">>, <<"2", "a", "0">> }

VARIABLES
  phracked,    \* the Phracked struct
  chans,       \* buffer of every status channel made so far
  dirs,        \* temporary directories that exist
  entries,     \* immediate entries of each temporary directory
  fopen,       \* state of each archive file handle: "none", "open", "closed"
  fdata,       \* bytes (tar entries) of each archive file
  body,        \* unread rest of each http response body
  views,       \* gocui views that exist
  cur,         \* gocui current view
  side,        \* lines of the side view
  sidePos,     \* origin + cursor row of the side view
  mainTitle,   \* title of the main view
  mainBody,    \* content of the main view
  shown,       \* history: every string updateStatus has written, per sender
  erased,      \* per sender, how many of those statusView.Clear() has erased
  statusCur,   \* cursor row and origin row of the status view
  userEvents,  \* functions handed to g.Execute and not yet run, in the order
               \* of the calls of g.Execute
  uiPc,        \* main goroutine
  safer,       \* loadIssue: the sanitized text, until init has stored it
  proc,        \* "running", "exit0", "fatal", "panic"
  supPc,       \* load(): "idle", "start", "select", "done", "fatal"
  selCh,       \* channel the select of load() waits on
  timer,       \* ticks until time.After of that select fires
  taskPc,      \* the pipeline goroutine of each load()
  sendCh,      \* channel and string of a blocked send of the pipeline
  copyErr,     \* err of io.Copy in writeToFile
  cp,          \* arguments of that io.Copy: the handle and the response
  ut,          \* locals of untar: target, file, index of the next header
  mf,          \* locals of updateMainFile, per goroutine (0: the main loop):
               \* path and result of ioutil.ReadFile, until the view is written
  nInit,       \* number of init() calls so far
  emitted,     \* history: status strings each pipeline has sent
  fillers,     \* history: number of fillers handed to g.Execute
  quiet,       \* history: ticks since the status display was last fed (a load()
               \* received a status string or handed a filler to g.Execute),
               \* up to TicksPerSec
  doneAge,     \* history: ticks load() has run since its pipeline sent "done"
  stages,      \* history: stages each pipeline has entered
  writers      \* history: goroutines that have written to a view

vars == << phracked, chans, dirs, entries, fopen, fdata, body, views, cur, side,
           sidePos, mainTitle, mainBody, shown, erased, statusCur, userEvents,
           uiPc, safer, proc, supPc, selCh, timer, taskPc, sendCh, copyErr, cp,
           ut, mf, nInit, emitted, fillers, quiet, doneAge,
           stages, writers >>

fsVars == << dirs, entries, fopen >>
uiVars == << views, cur, side, sidePos, mainTitle, mainBody, shown, erased,
            statusCur >>
supVars == << supPc, selCh, timer, fillers, quiet >>
taskVars == << taskPc, sendCh, copyErr, cp, ut, emitted, doneAge, stages >>

\* ---- the file system and the session record

FS == [dirs |-> dirs, entries |-> entries, fopen |-> fopen, panic |-> FALSE]

SetFS(r) == dirs' = r.dirs /\ entries' = r.entries /\ fopen' = r.fopen

\* (*os.File).Close: ErrInvalid on a nil receiver, an error on a handle that
\* was closed before; neither panics
FileClose(h, open) ==
  IF h = 0 THEN [open |-> open, err |-> TRUE]
  ELSE IF open[h] = "open" THEN [open |-> [open EXCEPT ![h] = "closed"], err |-> FALSE]
  ELSE [open |-> open, err |-> TRUE]

\* os.RemoveAll: nil when the path does not exist
RemoveAll(d, fs) ==
  [fs EXCEPT !.dirs = @ \ {d}, !.entries = [@ EXCEPT ![d] = {}]]

\* a clean() that treats the error of Close as fatal
cleanStrict(p, fs) ==
  IF p.temp # 0
  THEN LET c == FileClose(p.tgz, fs.fopen)
       IN IF c.err THEN [fs EXCEPT !.panic = TRUE]
          ELSE RemoveAll(p.temp, [fs EXCEPT !.fopen = c.open])
  ELSE fs

\* Phracked.clean
clean(p, fs) ==
  IF p.temp # 0
  THEN RemoveAll(p.temp, [fs EXCEPT !.fopen = FileClose(p.tgz, fs.fopen).open])
  ELSE fs

\* cleanFatal, called with the record p and the file system fs, up to its
\* call of log.Fatal: phracked.clean().  The goroutine that called it goes to
\* "fatal" and stands in log.Fatal until os.Exit ends the process (logFatal);
\* the other goroutines run on meanwhile.
cleanFatalOn(p, fs) ==
  LET r == clean(p, fs)
  IN /\ SetFS(r)
     /\ proc' = IF r.panic THEN "panic" ELSE proc

cleanFatal == cleanFatalOn(phracked, FS)

\* a locator without the extension
UrlPlain(issue) == UrlBase \o issue

\* Phracked.init: p.url
Url(issue) == UrlBase \o issue \o TarGz
TempPrefix(issue) == <<"issue-">> \o issue \o <<"-">>
ArchiveName(issue) == issue \o TarGz

\* Phracked.init, statement by statement.  id numbers the channel, the
\* directory and the handle this call makes.

\* p.status = make(chan string, 1)
SetStatus(p, id) == [p EXCEPT !.status = id]

\* p.issue = issue; p.url = ... + p.issue + ".tar.gz"; p.tempPrefix = ...
SetIssue(p, issue) ==
  [p EXCEPT !.issue = issue, !.url = Url(issue), !.tempPrefix = TempPrefix(issue)]

\* p.temp, err = ioutil.TempDir("", p.tempPrefix): "" on an error
SetTemp(p, id, ok) == [p EXCEPT !.temp = IF ok THEN id ELSE 0]

\* ioutil.TempDir makes a new, empty directory
TempDir(fs, id) ==
  [fs EXCEPT !.dirs = @ \cup {id}, !.entries = [@ EXCEPT ![id] = {}]]

\* p.filePath = p.temp + "/" + p.issue + ".tar.gz"
SetFilePath(p) ==
  [p EXCEPT !.filePath = [dir |-> p.temp, name |-> ArchiveName(p.issue)]]

\* p.tgz, err = os.Create(p.filePath): nil on an error
SetTgz(p, id, ok) == [p EXCEPT !.tgz = IF ok THEN id ELSE 0]

\* os.Create makes the file, empty, and opens it
Create(path, fs, id) ==
  [fs EXCEPT !.fopen = [@ EXCEPT ![id] = "open"],
             !.entries = [@ EXCEPT ![path.dir] = @ \cup {File(path.name)}]]

\* Phracked.init run without another goroutine in between: the record and the
\* file system after init(issue), and whether it ended in cleanFatal.  tempOk
\* and createOk are the outcomes of ioutil.TempDir and os.Create.
init(p, fs, n, issue, tempOk, createOk) ==
  LET id == n + 1
      fs1 == clean(p, fs)
      p1 == SetTemp(SetIssue(SetStatus(p, id), issue), id, tempOk)
      fs2 == IF tempOk THEN TempDir(fs1, id) ELSE fs1
      p2 == SetTgz(SetFilePath(p1), id, createOk)
      fs3 == Create(p2.filePath, fs2, id)
  IN IF ~tempOk THEN [p |-> p1, fs |-> clean(p1, fs2), fatal |-> TRUE]
     ELSE IF ~createOk THEN [p |-> p2, fs |-> clean(p2, fs2), fatal |-> TRUE]
     ELSE [p |-> p2, fs |-> fs3, fatal |-> FALSE]

\* strings.Contains
Contains(s, sub) ==
  \E i \in 0..(Len(s) - Len(sub)) : \A j \in 1..Len(sub) : s[i + j] = sub[j]

\* a countPages that looks for ".txt" anywhere in the name
countPagesContains(es) == Cardinality({ e \in es : Contains(e.name, DotTxt) })

\* Phracked.countPages, on the entries ioutil.ReadDir returned
countPages(es) == Cardinality({ e \in es : HasSuffix(e.name, DotTxt) })

\* updateMainFile is not running in that goroutine
NoRead == [st |-> "none", dir |-> 0, name |-> <<>>]

\* ---- initial state: the zero-valued struct of `new(Phracked)`

Init ==
  /\ phracked = [wg |-> 0, status |-> 0, issue |-> <<>>, url |-> <<>>,
                 tempPrefix |-> <<>>, temp |-> 0, pages |-> 0, tgz |-> 0,
                 filePath |-> [dir |-> 0, name |-> <<>>], response |-> 0]
  /\ chans = [c \in Loads |-> <<>>]
  /\ dirs = {}
  /\ entries = [d \in Loads |-> {}]
  /\ fopen = [h \in Loads |-> "none"]
  /\ fdata = [h \in Loads |-> <<>>]
  /\ body = [l \in Loads |-> <<>>]
  /\ views = {}
  /\ cur = "none"
  /\ side = <<>>
  /\ sidePos = 0
  /\ mainTitle = <<>>
  /\ mainBody = [kind |-> "empty", dir |-> 0, name |-> <<>>]
  /\ shown = [l \in 0..MaxRaceLoads |-> <<>>]
  /\ erased = [l \in 0..MaxRaceLoads |-> 0]
  /\ statusCur = [cy |-> 0, oy |-> 0]
  /\ userEvents = <<>>
  /\ uiPc = "init"
  /\ safer = <<>>
  /\ proc = "running"
  /\ supPc = [l \in Loads |-> "idle"]
  /\ selCh = [l \in Loads |-> 0]
  /\ timer = [l \in Loads |-> 0]
  /\ taskPc = [l \in Loads |-> "idle"]
  /\ sendCh = [l \in Loads |-> [ch |-> 0, text |-> <<>>]]
  /\ copyErr = [l \in Loads |-> FALSE]
  /\ cp = [l \in Loads |-> [dst |-> 0, src |-> 0]]
  /\ ut = [l \in Loads |-> [target |-> 0, file |-> 0, idx |-> 0]]
  /\ mf = [g \in 0..MaxRaceLoads |-> NoRead]
  /\ nInit = 0
  /\ emitted = [l \in Loads |-> <<>>]
  /\ fillers = 0
  /\ quiet = 0
  /\ doneAge = [l \in Loads |-> -1]
  /\ stages = [l \in Loads |-> <<>>]
  /\ writers = {}

\* ---- the main goroutine

\* func init(): phracked.init(issue) with the issue of the command line
GoInitFrom(args) ==
  /\ proc = "running" /\ uiPc = "init"
  /\ \E issue \in args, tempOk \in BOOLEAN, createOk \in BOOLEAN :
       LET r == init(phracked, FS, nInit, issue, tempOk, createOk)
       IN /\ tempOk \/ createOk
          /\ phracked' = r.p
          /\ SetFS(r.fs)
          /\ proc' = IF r.fs.panic THEN "panic" ELSE proc
          /\ uiPc' = IF r.fatal THEN "fatal" ELSE "main"
  /\ nInit' = nInit + 1
  /\ UNCHANGED << chans, fdata, body, uiVars, userEvents, safer, supVars, taskVars,
                  writers, mf >>

GoInit == GoInitFrom(ArgIssues)

\* main(), up to the call of g.MainLoop: g.Init, SetLayout, keybindings,
\* defer phracked.clean(), wg.Add(1), go phracked.load()
UiMain ==
  /\ proc = "running" /\ uiPc = "main"
  /\ phracked' = [phracked EXCEPT !.wg = @ + 1]
  /\ supPc' = [supPc EXCEPT ![nInit] = "start"]
  /\ uiPc' = "flush"
  /\ UNCHANGED << chans, fsVars, fdata, body, uiVars, userEvents, proc, selCh, timer,
                  fillers, quiet, taskVars, nInit, safer, writers,
                  mf >>

\* main(): g.Init() returns an error
UiInitFail ==
  /\ proc = "running" /\ uiPc = "main"
  /\ cleanFatal
  /\ uiPc' = "fatal"
  /\ UNCHANGED << phracked, chans, fdata, body, uiVars, userEvents, supVars,
                  taskVars, nInit, safer, writers, mf >>

\* layout, on the first flush of g.MainLoop: the three views are created
UiLayout ==
  /\ proc = "running" /\ uiPc = "flush"
  /\ views' = {"side", "main", "status"}
  /\ side' = <<LoadingLine>>
  /\ cur' = "main"
  /\ uiPc' = "loop"
  /\ writers' = writers \cup {"ui"}
  /\ UNCHANGED << phracked, chans, fsVars, fdata, body, sidePos, mainTitle, mainBody,
                  shown, statusCur, erased, userEvents, proc, supVars, taskVars, nInit, safer, mf >>

\* main(): g.MainLoop returns an error other than ErrQuit (of the terminal
\* or of layout), and main calls cleanFatal
mainLoopFail ==
  /\ proc = "running" /\ uiPc \in {"flush", "loop"}
  /\ cleanFatal
  /\ uiPc' = "fatal"
  /\ UNCHANGED << phracked, chans, fdata, body, uiVars, userEvents, safer,
                  supVars, taskVars, nInit, writers, mf >>

\* nextView, bound to Tab on the side and the main view
nextView ==
  /\ proc = "running" /\ uiPc = "loop"
  /\ cur \in {"side", "main"}
  /\ cur' = IF cur = "side" THEN "main" ELSE "side"
  /\ UNCHANGED << phracked, chans, fsVars, fdata, body, views, side, sidePos, mainTitle,
                  mainBody, shown, statusCur, erased, userEvents, uiPc, proc, supVars,
                  taskVars, nInit, safer, writers, mf >>

\* cursorDown on the side view: the cursor or, at the last row, the origin
\* moves one line down.  The key is bound on the main view too; the cursor
\* of the main view is read by nothing and is not part of the state.
cursorDown ==
  /\ proc = "running" /\ uiPc = "loop"
  /\ cur = "side" /\ sidePos < MaxPos
  /\ sidePos' = sidePos + 1
  /\ UNCHANGED << phracked, chans, fsVars, fdata, body, views, cur, side, mainTitle,
                  mainBody, shown, statusCur, erased, userEvents, uiPc, proc, supVars,
                  taskVars, nInit, safer, writers, mf >>

\* cursorUp on the side view
cursorUp ==
  /\ proc = "running" /\ uiPc = "loop"
  /\ cur = "side" /\ sidePos > 0
  /\ sidePos' = sidePos - 1
  /\ UNCHANGED << phracked, chans, fsVars, fdata, body, views, cur, side, mainTitle,
                  mainBody, shown, statusCur, erased, userEvents, uiPc, proc, supVars,
                  taskVars, nInit, safer, writers, mf >>

\* (*View).Line: the line under the cursor, "" when there is none
Line(buf, y) == IF y + 1 <= Len(buf) THEN buf[y + 1] ELSE <<>>

\* ioutil.ReadFile(phracked.temp + "/" + name) succeeds
CanRead(p, name) == p.temp \in dirs /\ File(name) \in entries[p.temp]

\* updateMainFile, up to the return of ioutil.ReadFile: the path
\* phracked.temp + "/" + name is built, g.View("main") succeeds and the file
\* is read.  The result is the file read, or err.
ReadFile(name) ==
  IF CanRead(phracked, name) THEN [st |-> "ok", dir |-> phracked.temp, name |-> name]
  ELSE [st |-> "err", dir |-> 0, name |-> <<>>]

\* an updateMainFile that only clears the main view when ReadFile failed
updateMainFileClear(r, who) ==
  /\ IF r.st = "ok"
     THEN /\ mainBody' = [kind |-> "file", dir |-> r.dir, name |-> r.name]
          /\ cur' = "main"
     ELSE /\ mainBody' = [kind |-> "empty", dir |-> 0, name |-> <<>>]
          /\ cur' = cur
  /\ writers' = writers \cup {who}

\* updateMainFile, after ioutil.ReadFile has returned r: the main view is
\* cleared and written, and made the current view when the file was read
updateMainFile(r, who) ==
  /\ IF r.st = "ok"
     THEN /\ mainBody' = [kind |-> "file", dir |-> r.dir, name |-> r.name]
          /\ cur' = "main"
     ELSE /\ mainBody' = [kind |-> "cant", dir |-> 0, name |-> <<>>]
          /\ cur' = cur
  /\ writers' = writers \cup {who}

\* cursorSelect on the line "load": the prompt view is created and focused
cursorSelectLoad ==
  /\ proc = "running" /\ uiPc = "loop"
  /\ cur = "side"
  /\ Line(side, sidePos) = LoadLine
  /\ "msg" \notin views
  /\ views' = views \cup {"msg"}
  /\ cur' = "msg"
  /\ writers' = writers \cup {"ui"}
  /\ UNCHANGED << phracked, chans, fsVars, fdata, body, side, sidePos, mainTitle,
                  mainBody, shown, statusCur, erased, userEvents, uiPc, proc, supVars,
                  taskVars, nInit, safer, mf >>

\* cursorSelect on any other line l: updateMainFile(l + ".txt"), up to the
\* return of ioutil.ReadFile
cursorSelectPage ==
  /\ proc = "running" /\ uiPc = "loop"
  /\ cur = "side"
  /\ Line(side, sidePos) # LoadLine
  /\ mf' = [mf EXCEPT ![0] = ReadFile(Line(side, sidePos) \o DotTxt)]
  /\ uiPc' = "page_write"
  /\ UNCHANGED << phracked, chans, fsVars, fdata, body, uiVars, userEvents, proc,
                  supVars, taskVars, nInit, safer, writers >>

\* cursorSelect: updateMainFile writes the main view, the handler returns
cursorSelectWrite ==
  /\ proc = "running" /\ uiPc = "page_write"
  /\ updateMainFile(mf[0], "ui")
  /\ mf' = [mf EXCEPT ![0] = NoRead]
  /\ uiPc' = "loop"
  /\ UNCHANGED << phracked, chans, fsVars, fdata, body, views, side, sidePos, mainTitle,
                  shown, statusCur, erased, userEvents, proc, supVars, taskVars,
                  nInit, safer >>

\* a loadIssue that stops the pipelines that are still running
StopsPipelines ==
  taskPc' = [l \in Loads |-> IF taskPc[l] \in {"idle", "finished"} THEN taskPc[l]
                             ELSE "dead"]

\* loadIssue has no statement that stops or joins the goroutines of the
\* loads before
KeepsPipelines == UNCHANGED taskPc

\* loadIssue, bound to Enter on the prompt, up to the first statement of
\* init: the text is sanitized, the prompt deleted, the main view made
\* current, and init(safer) calls p.clean()
loadIssueFrom(n, inputs) ==
  /\ proc = "running" /\ uiPc = "loop"
  /\ cur = "msg" /\ nInit < n
  /\ \E typed \in inputs : safer' = Sanitize(typed)
  /\ views' = views \ {"msg"}
  /\ cur' = "main"
  /\ writers' = writers \cup {"ui"}
  /\ SetFS(clean(phracked, FS))
  /\ nInit' = nInit + 1
  /\ uiPc' = "init_status"
  /\ KeepsPipelines
  /\ UNCHANGED << phracked, chans, fdata, body, side, sidePos, mainTitle, mainBody,
                  shown, erased, statusCur, userEvents, proc, supVars, sendCh,
                  copyErr, cp, ut, emitted, doneAge, stages, mf >>

loadIssueUpTo(n) == loadIssueFrom(n, Typed)

loadIssue == loadIssueUpTo(MaxLoads)

\* init, called by loadIssue: p.status = make(chan string, 1)
initStatus ==
  /\ proc = "running" /\ uiPc = "init_status"
  /\ phracked' = SetStatus(phracked, nInit)
  /\ uiPc' = "init_issue"
  /\ UNCHANGED << chans, fsVars, fdata, body, uiVars, userEvents, safer, proc,
                  supVars, taskVars, nInit, writers, mf >>

\* init, called by loadIssue: p.issue, p.url and p.tempPrefix are assigned
initIssue ==
  /\ proc = "running" /\ uiPc = "init_issue"
  /\ phracked' = SetIssue(phracked, safer)
  /\ safer' = <<>>
  /\ uiPc' = "init_temp"
  /\ UNCHANGED << chans, fsVars, fdata, body, uiVars, userEvents, proc, supVars,
                  taskVars, nInit, writers, mf >>

\* init, called by loadIssue: p.temp, err = ioutil.TempDir(...), and
\* cleanFatal on an error
initTemp ==
  /\ proc = "running" /\ uiPc = "init_temp"
  /\ \E ok \in BOOLEAN :
       /\ phracked' = SetTemp(phracked, nInit, ok)
       /\ IF ok THEN /\ SetFS(TempDir(FS, nInit))
                     /\ uiPc' = "init_path"
                     /\ proc' = proc
               ELSE /\ cleanFatalOn(phracked', FS)
                    /\ uiPc' = "fatal"
  /\ UNCHANGED << chans, fdata, body, uiVars, userEvents, safer, supVars, taskVars,
                  nInit, writers, mf >>

\* init, called by loadIssue: p.filePath = p.temp + "/" + p.issue + ".tar.gz"
initFilePath ==
  /\ proc = "running" /\ uiPc = "init_path"
  /\ phracked' = SetFilePath(phracked)
  /\ uiPc' = "init_tgz"
  /\ UNCHANGED << chans, fsVars, fdata, body, uiVars, userEvents, safer, proc,
                  supVars, taskVars, nInit, writers, mf >>

\* init, called by loadIssue: p.tgz, err = os.Create(p.filePath), and
\* cleanFatal on an error; back in loadIssue, wg.Add(1) and go phracked.load().
\* os.Create fails when the directory of the path is gone (the clean() of a
\* goroutine that stands in log.Fatal has removed it), and may fail otherwise.
initTgz ==
  /\ proc = "running" /\ uiPc = "init_tgz"
  /\ \E ok \in IF phracked.filePath.dir \in dirs THEN BOOLEAN ELSE {FALSE} :
       IF ok THEN /\ phracked' = [SetTgz(phracked, nInit, TRUE) EXCEPT !.wg = @ + 1]
                  /\ SetFS(Create(phracked.filePath, FS, nInit))
                  /\ supPc' = [supPc EXCEPT ![nInit] = "start"]
                  /\ uiPc' = "loop"
                  /\ proc' = proc
            ELSE /\ phracked' = SetTgz(phracked, nInit, FALSE)
                 /\ cleanFatalOn(phracked', FS)
                 /\ uiPc' = "fatal"
                 /\ UNCHANGED supPc
  /\ UNCHANGED << chans, fdata, body, uiVars, userEvents, safer, selCh, timer, fillers,
                  quiet, taskVars, nInit, writers, mf >>

\* g.Execute(f): f is handed to a goroutine of its own, which sends it to the
\* main loop
Execute(m) == userEvents' = Append(userEvents, m)

\* the sequence q without its i-th element
Without(q, i) == SubSeq(q, 1, i - 1) \o SubSeq(q, i + 1, Len(q))

\* updateStatus, run by the main loop for the i-th of the functions handed to
\* g.Execute that are pending
updateStatusOf(i) ==
  /\ proc = "running" /\ uiPc = "loop"
  /\ i \in 1..Len(userEvents)
  /\ LET m == userEvents[i]
     IN /\ shown' = [shown EXCEPT ![m.src] = Append(@, m.text)]
        /\ statusCur' =
             IF HasSuffix(m.text, <<NL>>)
             THEN [cy |-> IF statusCur.cy < StatusLastRow THEN statusCur.cy + 1
                          ELSE statusCur.cy,
                   oy |-> IF statusCur.cy = StatusLastRow THEN statusCur.oy + 1
                          ELSE statusCur.oy]
             ELSE statusCur
  /\ userEvents' = Without(userEvents, i)
  /\ writers' = writers \cup {"ui"}
  /\ UNCHANGED << phracked, chans, fsVars, fdata, body, views, cur, side, sidePos,
                  mainTitle, mainBody, erased, uiPc, proc, supVars, taskVars, nInit,
                  safer, mf >>

\* updateStatus: the goroutines of g.Execute send in no order of their own,
\* so the main loop runs the pending functions in any order
updateStatus == \E i \in 1..Len(userEvents) : updateStatusOf(i)

\* the functions handed to g.Execute reach the main loop in the order of the
\* calls
updateStatusInOrder == updateStatusOf(1)

\* quit, bound to Ctrl-C: the handler is entered
quit ==
  /\ proc = "running" /\ uiPc = "loop"
  /\ uiPc' = "quit"
  /\ UNCHANGED << phracked, chans, fsVars, fdata, body, uiVars, userEvents, proc,
                  supVars, taskVars, nInit, safer, writers, mf >>

\* quit: phracked.status <- "done" completes, MainLoop returns ErrQuit
quitSend ==
  /\ proc = "running" /\ uiPc = "quit"
  /\ Len(chans[phracked.status]) < ChanCap
  /\ chans' = [chans EXCEPT ![phracked.status] = Append(@, [text |-> MsgDone, src |-> 0])]
  /\ uiPc' = "wait"
  /\ UNCHANGED << phracked, fsVars, fdata, body, uiVars, userEvents, proc, supVars,
                  taskVars, nInit, safer, writers, mf >>

\* main(): phracked.wg.Wait() returns and the deferred phracked.clean() runs
shutdownClean ==
  /\ proc = "running" /\ uiPc = "wait"
  /\ phracked.wg = 0
  /\ LET r == clean(phracked, FS)
     IN /\ SetFS(r)
        /\ proc' = IF r.panic THEN "panic" ELSE proc
  /\ uiPc' = "cleaned"
  /\ UNCHANGED << phracked, chans, fdata, body, uiVars, userEvents, supVars, taskVars,
                  nInit, safer, writers, mf >>

\* main(): the deferred g.Close() runs and main returns
shutdownExit ==
  /\ proc = "running" /\ uiPc = "cleaned"
  /\ proc' = "exit0"
  /\ uiPc' = "exited"
  /\ UNCHANGED << phracked, chans, fsVars, fdata, body, uiVars, userEvents, supVars,
                  taskVars, nInit, safer, writers, mf >>

\* some goroutine has called cleanFatal and stands in log.Fatal
InLogFatal ==
  \/ uiPc = "fatal"
  \/ \E l \in Loads : supPc[l] = "fatal" \/ taskPc[l] = "fatal"

\* log.Fatal of cleanFatal: the message is written and os.Exit(1) ends the
\* process, whatever the other goroutines are doing
logFatal ==
  /\ proc = "running" /\ InLogFatal
  /\ proc' = "fatal"
  /\ UNCHANGED << phracked, chans, fsVars, fdata, body, uiVars, userEvents, uiPc,
                  supVars, taskVars, nInit, safer, writers, mf >>

\* ---- the stages of the pipeline

\* the order of the calls in the goroutine with the write after the unpack
AfterStageSwapped(stage) ==
  CASE stage = "fetch" -> "unpack_send"
    [] stage = "unpack" -> "write_copy"
    [] stage = "persist" -> "build_send"
    [] stage = "index" -> "done_send"

\* the goroutine of load(): p.fetchIssue(); p.writeToFile(); p.unpack();
\* p.buildUI(); p.status <- "done".  The first statement of what is called
\* after each stage returns.
AfterStage(stage) ==
  CASE stage = "fetch" -> "write_copy"
    [] stage = "persist" -> "unpack_send"
    [] stage = "unpack" -> "build_send"
    [] stage = "index" -> "done_send"

\* the stage each statement of the pipeline belongs to
StageOf(pc) ==
  CASE pc \in {"fetch_send", "fetch_get", "fetch_done"} -> "fetch"
    [] pc \in {"write_copy", "write_chunk", "write_send"} -> "persist"
    [] pc \in {"unpack_send", "untar_open", "untar_next", "untar_copy",
               "unpack_done"} -> "unpack"
    [] pc \in {"build_send", "count", "side", "main_read", "main_write"} -> "index"
    [] OTHER -> "none"

\* the pipeline of l moves on to the statement pc
Goto(l, pc) ==
  /\ taskPc' = [taskPc EXCEPT ![l] = pc]
  /\ stages' = IF StageOf(pc) \notin {"none", StageOf(taskPc[l])}
               THEN [stages EXCEPT ![l] = Append(@, StageOf(pc))]
               ELSE stages

\* ---- load(): the supervising loop

\* the select statement is entered: p.status is evaluated, time.After is armed
EnterSelect(l) ==
  /\ selCh' = [selCh EXCEPT ![l] = phracked.status]
  /\ timer' = [timer EXCEPT ![l] = TicksPerSec]

\* load(), up to its first select: clearStatus (the status view is emptied,
\* its cursor and origin reset), updateTitle, the pipeline goroutine is
\* started
loadStart(l) ==
  /\ proc = "running" /\ supPc[l] = "start"
  /\ {"status", "main"} \subseteq views
  /\ erased' = [s \in DOMAIN shown |-> Len(shown[s])]
  /\ statusCur' = [cy |-> 0, oy |-> 0]
  /\ mainTitle' = TitleBase \o phracked.issue
  /\ writers' = writers \cup {"load"}
  /\ Goto(l, "fetch_send")
  /\ supPc' = [supPc EXCEPT ![l] = "select"]
  /\ EnterSelect(l)
  /\ UNCHANGED << phracked, chans, fsVars, fdata, body, views, cur, side, sidePos,
                  mainBody, shown, userEvents, uiPc, proc, fillers, quiet, sendCh, copyErr, cp,
                  ut, emitted, doneAge, nInit, safer, mf >>

\* load(): g.View fails in clearStatus because layout has not run yet
loadStartFail(l) ==
  /\ proc = "running" /\ supPc[l] = "start"
  /\ ~({"status", "main"} \subseteq views)
  /\ cleanFatal
  /\ supPc' = [supPc EXCEPT ![l] = "fatal"]
  /\ UNCHANGED << phracked, chans, fdata, body, uiVars, userEvents, uiPc, selCh,
                  timer, fillers, quiet, taskVars, nInit, safer,
                  writers, mf >>

\* case status := <-p.status with a status other than "done":
\* g.Execute(updateStatus(status)), next iteration
loadRecv(l) ==
  /\ proc = "running" /\ supPc[l] = "select"
  /\ chans[selCh[l]] # <<>>
  /\ Head(chans[selCh[l]]).text # MsgDone
  /\ chans' = [chans EXCEPT ![selCh[l]] = Tail(@)]
  /\ Execute(Head(chans[selCh[l]]))
  /\ EnterSelect(l)
  /\ quiet' = 0
  /\ UNCHANGED << phracked, fsVars, fdata, body, uiVars, uiPc, proc, supPc, fillers,
                  taskVars, nInit, safer, writers, mf >>

\* case status := <-p.status with "done": return, and the deferred wg.Done()
loadRecvDone(l) ==
  /\ proc = "running" /\ supPc[l] = "select"
  /\ chans[selCh[l]] # <<>>
  /\ Head(chans[selCh[l]]).text = MsgDone
  /\ chans' = [chans EXCEPT ![selCh[l]] = Tail(@)]
  /\ supPc' = [supPc EXCEPT ![l] = "done"]
  /\ selCh' = [selCh EXCEPT ![l] = 0]
  /\ timer' = [timer EXCEPT ![l] = 0]
  /\ doneAge' = [doneAge EXCEPT ![l] = -1]
  /\ phracked' = [phracked EXCEPT !.wg = @ - 1]
  /\ UNCHANGED << fsVars, fdata, body, uiVars, userEvents, uiPc, proc, fillers,
                  quiet, taskPc,
                  sendCh, copyErr, cp, ut, emitted, stages, nInit, safer, writers, mf >>

\* case <-time.After(1000 * time.Millisecond): g.Execute(updateStatus(".")),
\* next iteration, in which time.After makes a new timer.  Runs are followed
\* up to MaxFillers fillers.
loadTimeout(l) ==
  /\ proc = "running" /\ supPc[l] = "select" /\ timer[l] = 0
  /\ fillers < MaxFillers
  /\ Execute([text |-> MsgFiller, src |-> 0])
  /\ fillers' = fillers + 1
  /\ quiet' = 0
  /\ EnterSelect(l)
  /\ UNCHANGED << phracked, chans, fsVars, fdata, body, uiVars, uiPc, proc, supPc,
                  taskVars, nInit, safer, writers, mf >>

\* the statements of the pipeline that send on p.status
SendPcs == {"fetch_send", "fetch_done", "write_send", "unpack_send", "unpack_done",
            "build_send", "done_send"}

\* p.status <- s can make a step: its operands are not evaluated yet, or the
\* channel it waits on has room
CanSend(l) ==
  /\ taskPc[l] \in SendPcs
  /\ sendCh[l].ch = 0 \/ Len(chans[sendCh[l].ch]) < ChanCap

\* some goroutine can run without waiting for the network, the disk, the
\* user, a channel or a timer
Runnable ==
  \/ uiPc \in {"init", "main", "flush", "cleaned", "init_status", "init_issue",
              "init_temp", "init_path", "init_tgz", "page_write"}
  \/ InLogFatal
  \/ uiPc = "loop" /\ userEvents # <<>>
  \/ uiPc = "quit" /\ Len(chans[phracked.status]) < ChanCap
  \/ uiPc = "wait" /\ phracked.wg = 0
  \/ \E l \in Loads :
       \/ supPc[l] = "start"
       \/ supPc[l] = "select" /\ (timer[l] = 0 \/ chans[selCh[l]] # <<>>)
       \/ CanSend(l)

\* a tick more on a count of ticks that is kept up to TicksPerSec
UpToSec(n) == IF n < TicksPerSec THEN n + 1 ELSE n

\* One tick of the clock, while some load() waits in its select: the timers
\* that have not fired come one tick nearer, a timer that has fired stays
\* ready until its select takes it.
Tick ==
  /\ proc = "running"
  /\ \E l \in Loads : supPc[l] = "select"
  /\ timer' = [l \in Loads |-> IF supPc[l] = "select" /\ timer[l] > 0
                               THEN timer[l] - 1 ELSE timer[l]]
  /\ quiet' = UpToSec(quiet)
  /\ doneAge' = [l \in Loads |-> IF doneAge[l] >= 0 /\ supPc[l] = "select"
                                 THEN (IF doneAge[l] <= TicksPerSec THEN doneAge[l] + 1
                                       ELSE doneAge[l])
                                 ELSE doneAge[l]]
  /\ UNCHANGED << phracked, chans, fsVars, fdata, body, uiVars, userEvents, uiPc, proc,
                  supPc, selCh, fillers, taskPc, sendCh, copyErr, cp, ut, emitted, stages,
                  nInit, safer, writers, mf >>

\* the scheduler is timely: a goroutine that can run does so before the clock
\* ticks again
Timely == ~Runnable

\* ---- the pipeline goroutine of load()

\* p.status <- text.  The channel and the string are evaluated when the
\* statement is reached; the send completes when the buffer has room.
Send(l, text, pc) ==
  LET w == IF sendCh[l].ch # 0 THEN sendCh[l]
           ELSE [ch |-> phracked.status, text |-> text]
  IN IF Len(chans[w.ch]) < ChanCap
     THEN /\ chans' = [chans EXCEPT ![w.ch] = Append(@, [text |-> w.text, src |-> l])]
          /\ emitted' = [emitted EXCEPT ![l] = Append(@, w.text)]
          /\ sendCh' = [sendCh EXCEPT ![l] = [ch |-> 0, text |-> <<>>]]
          /\ Goto(l, pc)
     ELSE /\ sendCh[l].ch = 0
          /\ sendCh' = [sendCh EXCEPT ![l] = w]
          /\ UNCHANGED << chans, emitted, taskPc, stages >>

\* fetchIssue: p.status <- "Fetching " + p.url + "..."
fetchSend(l) ==
  /\ proc = "running" /\ taskPc[l] = "fetch_send"
  /\ Send(l, MsgFetching(phracked.url), "fetch_get")
  /\ UNCHANGED << phracked, fsVars, fdata, body, uiVars, userEvents, uiPc, proc,
                  supVars, copyErr, cp, ut, doneAge, nInit, safer, writers, mf >>

\* fetchIssue: http.Get succeeds with some archive as the body
fetchGetFrom(l, served) ==
  /\ proc = "running" /\ taskPc[l] = "fetch_get"
  /\ \E a \in served : body' = [body EXCEPT ![l] = a]
  /\ phracked' = [phracked EXCEPT !.response = l]
  /\ Goto(l, "fetch_done")
  /\ UNCHANGED << chans, fsVars, fdata, uiVars, userEvents, uiPc, proc, supVars,
                  sendCh, copyErr, cp, ut, emitted, doneAge, nInit, safer, writers, mf >>

fetchGet(l) == fetchGetFrom(l, Archives)

\* fetchIssue: http.Get fails: p.response is nil, and cleanFatal
fetchFail(l) ==
  /\ proc = "running" /\ taskPc[l] = "fetch_get"
  /\ phracked' = [phracked EXCEPT !.response = 0]
  /\ cleanFatalOn(phracked', FS)
  /\ Goto(l, "fatal")
  /\ UNCHANGED << chans, fdata, body, uiVars, userEvents, uiPc, supVars,
                  sendCh, copyErr, cp, ut, emitted, doneAge, nInit, safer, writers, mf >>

\* fetchIssue: p.status <- "\nDownload Complete...\n"
fetchDone(l) ==
  /\ proc = "running" /\ taskPc[l] = "fetch_done"
  /\ Send(l, MsgDownloaded, AfterStage("fetch"))
  /\ UNCHANGED << phracked, fsVars, fdata, body, uiVars, userEvents, uiPc, proc,
                  supVars, copyErr, cp, ut, doneAge, nInit, safer, writers, mf >>

\* writeToFile: the call io.Copy(p.tgz, p.response.Body) evaluates its
\* arguments; p.response.Body of a nil p.response (the http.Get of another
\* pipeline has failed since) is a nil dereference, which ends the process
writeCopy(l) ==
  /\ proc = "running" /\ taskPc[l] = "write_copy"
  /\ IF phracked.response = 0
     THEN /\ proc' = "panic"
          /\ UNCHANGED << cp, taskPc, stages >>
     ELSE /\ cp' = [cp EXCEPT ![l] = [dst |-> phracked.tgz, src |-> phracked.response]]
          /\ Goto(l, "write_chunk")
          /\ proc' = proc
  /\ UNCHANGED << phracked, chans, fsVars, fdata, body, uiVars, userEvents, uiPc,
                  safer, supVars, sendCh, copyErr, ut, emitted, doneAge, nInit,
                  writers, mf >>

\* io.Copy: one round of its loop.  A chunk (here one tar entry) is read from
\* the body and written to the handle; a handle that is nil or closed makes
\* the write, and so the copy, fail; the end of the body ends the copy
\* without error.
writeChunk(l) ==
  /\ proc = "running" /\ taskPc[l] = "write_chunk"
  /\ LET h == cp[l].dst
         r == cp[l].src
     IN IF body[r] = <<>>
        THEN /\ copyErr' = [copyErr EXCEPT ![l] = FALSE]
             /\ Goto(l, "write_send")
             /\ UNCHANGED << fdata, body >>
        ELSE /\ body' = [body EXCEPT ![r] = Tail(@)]
             /\ IF h # 0 /\ fopen[h] = "open"
                THEN /\ fdata' = [fdata EXCEPT ![h] = Append(@, Head(body[r]))]
                     /\ UNCHANGED << copyErr, taskPc, stages >>
                ELSE /\ copyErr' = [copyErr EXCEPT ![l] = TRUE]
                     /\ Goto(l, "write_send")
                     /\ UNCHANGED fdata
  /\ UNCHANGED << phracked, chans, fsVars, uiVars, userEvents, uiPc, safer, proc,
                  supVars, sendCh, cp, ut, emitted, doneAge, nInit, writers, mf >>

\* io.Copy: a read from the body or a write to the disk returns an error,
\* after any number of chunks
writeCopyFail(l) ==
  /\ proc = "running" /\ taskPc[l] = "write_chunk"
  /\ copyErr' = [copyErr EXCEPT ![l] = TRUE]
  /\ Goto(l, "write_send")
  /\ UNCHANGED << phracked, chans, fsVars, fdata, body, uiVars, userEvents, uiPc,
                  safer, proc, supVars, sendCh, cp, ut, emitted, doneAge, nInit,
                  writers, mf >>

\* writeToFile: p.status <- "Wrote to " + p.filePath + "\n", then the test of
\* the err of io.Copy
writeSend(l) ==
  /\ proc = "running" /\ taskPc[l] = "write_send"
  /\ Send(l, MsgWrote(phracked.filePath),
          IF copyErr[l] THEN "fatal" ELSE AfterStage("persist"))
  /\ IF taskPc'[l] = "fatal"
     THEN cleanFatal
     ELSE UNCHANGED << fsVars, proc >>
  /\ UNCHANGED << phracked, fdata, body, uiVars, userEvents, uiPc, supVars, copyErr, cp,
                  ut, doneAge, nInit, safer, writers, mf >>

\* unpack: p.status <- "Unpacking tar.gz..."
unpackSend(l) ==
  /\ proc = "running" /\ taskPc[l] = "unpack_send"
  /\ Send(l, MsgUnpacking, "untar_open")
  /\ UNCHANGED << phracked, fsVars, fdata, body, uiVars, userEvents, uiPc, proc,
                  supVars, copyErr, cp, ut, doneAge, nInit, safer, writers, mf >>

\* os.Open(tarball) succeeds
CanOpen(path) == path.dir \in dirs /\ File(path.name) \in entries[path.dir]

\* untar(p.filePath, p.temp): os.Open(tarball) and tar.NewReader
untarOpen(l) ==
  /\ proc = "running" /\ taskPc[l] = "untar_open"
  /\ CanOpen(phracked.filePath)
  /\ ut' = [ut EXCEPT ![l] = [target |-> phracked.temp, file |-> phracked.filePath.dir,
                               idx |-> 1]]
  /\ Goto(l, "untar_next")
  /\ UNCHANGED << phracked, chans, fsVars, fdata, body, uiVars, userEvents, uiPc, proc,
                  supVars, sendCh, copyErr, cp, emitted, doneAge, nInit, safer, writers, mf >>

\* untar: os.Open(tarball) fails, unpack calls cleanFatal
untarOpenFail(l) ==
  /\ proc = "running" /\ taskPc[l] = "untar_open"
  /\ ~CanOpen(phracked.filePath)
  /\ cleanFatal
  /\ Goto(l, "fatal")
  /\ UNCHANGED << phracked, chans, fdata, body, uiVars, userEvents, uiPc, supVars,
                  sendCh, copyErr, cp, ut, emitted, doneAge, nInit, safer, writers, mf >>

\* the header tarReader.Next() returns, "eof" at the end of the file
NextHeader(l) ==
  IF ut[l].idx > Len(fdata[ut[l].file]) THEN [name |-> <<>>, kind |-> "eof"]
  ELSE fdata[ut[l].file][ut[l].idx]

\* os.MkdirAll(path) or os.OpenFile(path, O_CREATE|O_TRUNC|O_WRONLY) of untar
\* succeeds: MkdirAll makes the missing parents, OpenFile needs its parent
CanExtract(e, target) ==
  \/ e.kind = "dir" /\ File(e.name) \notin entries[target]
  \/ e.kind = "file" /\ target \in dirs /\ Dir(e.name) \notin entries[target]

\* untar: tarReader.Next() returns the header of a directory or a file.  A
\* directory is made by os.MkdirAll and the loop goes on with the next
\* header; a file is made, empty, by os.OpenFile, and io.Copy is next.
untarEntry(l) ==
  /\ proc = "running" /\ taskPc[l] = "untar_next"
  /\ NextHeader(l).kind \in {"dir", "file"}
  /\ CanExtract(NextHeader(l), ut[l].target)
  /\ dirs' = dirs \cup {ut[l].target}
  /\ entries' = [entries EXCEPT ![ut[l].target] =
                   @ \cup {[name |-> NextHeader(l).name, kind |-> NextHeader(l).kind]}]
  /\ IF NextHeader(l).kind = "dir"
     THEN /\ ut' = [ut EXCEPT ![l].idx = @ + 1]
          /\ UNCHANGED << taskPc, stages >>
     ELSE /\ Goto(l, "untar_copy")
          /\ UNCHANGED ut
  /\ UNCHANGED << phracked, chans, fopen, fdata, body, uiVars, userEvents, uiPc, proc,
                  supVars, sendCh, copyErr, cp, emitted, doneAge, nInit, safer,
                  writers, mf >>

\* untar: io.Copy(file, tarReader) has written the file of the entry, the
\* loop goes on with the next header
untarCopy(l) ==
  /\ proc = "running" /\ taskPc[l] = "untar_copy"
  /\ ut' = [ut EXCEPT ![l].idx = @ + 1]
  /\ Goto(l, "untar_next")
  /\ UNCHANGED << phracked, chans, fsVars, fdata, body, uiVars, userEvents, uiPc, proc,
                  supVars, sendCh, copyErr, cp, emitted, doneAge, nInit, safer,
                  writers, mf >>

\* untar: tarReader.Next() returns io.EOF, untar returns nil
untarEof(l) ==
  /\ proc = "running" /\ taskPc[l] = "untar_next"
  /\ NextHeader(l).kind = "eof"
  /\ Goto(l, "unpack_done")
  /\ UNCHANGED << phracked, chans, fsVars, fdata, body, uiVars, userEvents, uiPc, proc,
                  supVars, sendCh, copyErr, cp, ut, emitted, doneAge, nInit, safer, writers, mf >>

\* untar returns an error (a bad header, or MkdirAll / OpenFile failed),
\* unpack calls cleanFatal
untarFail(l) ==
  /\ proc = "running" /\ taskPc[l] = "untar_next"
  /\ \/ NextHeader(l).kind = "bad"
     \/ /\ NextHeader(l).kind \in {"dir", "file"}
        /\ ~CanExtract(NextHeader(l), ut[l].target)
  /\ cleanFatal
  /\ Goto(l, "fatal")
  /\ UNCHANGED << phracked, chans, fdata, body, uiVars, userEvents, uiPc, supVars,
                  sendCh, copyErr, cp, ut, emitted, doneAge, nInit, safer, writers, mf >>

\* untar: io.Copy(file, tarReader) returns an error and leaves the file of
\* the entry as far as it was written; unpack calls cleanFatal
untarCopyFail(l) ==
  /\ proc = "running" /\ taskPc[l] = "untar_copy"
  /\ cleanFatal
  /\ Goto(l, "fatal")
  /\ UNCHANGED << phracked, chans, fdata, body, uiVars, userEvents, uiPc, safer,
                  supVars, sendCh, copyErr, cp, ut, emitted, doneAge, nInit, writers, mf >>

\* unpack: p.status <- "Issue unpacked\n"
unpackDone(l) ==
  /\ proc = "running" /\ taskPc[l] = "unpack_done"
  /\ Send(l, MsgUnpacked, AfterStage("unpack"))
  /\ UNCHANGED << phracked, fsVars, fdata, body, uiVars, userEvents, uiPc, proc,
                  supVars, copyErr, cp, ut, doneAge, nInit, safer, writers, mf >>

\* buildUI: p.status <- "Building UI\n"
buildSend(l) ==
  /\ proc = "running" /\ taskPc[l] = "build_send"
  /\ Send(l, MsgBuilding, "count")
  /\ UNCHANGED << phracked, fsVars, fdata, body, uiVars, userEvents, uiPc, proc,
                  supVars, copyErr, cp, ut, doneAge, nInit, safer, writers, mf >>

\* buildUI: p.countPages() with ioutil.ReadDir(p.temp) succeeding
count(l) ==
  /\ proc = "running" /\ taskPc[l] = "count"
  /\ phracked.temp \in dirs
  /\ phracked' = [phracked EXCEPT !.pages = countPages(entries[phracked.temp])]
  /\ Goto(l, "side")
  /\ UNCHANGED << chans, fsVars, fdata, body, uiVars, userEvents, uiPc, proc, supVars,
                  sendCh, copyErr, cp, ut, emitted, doneAge, nInit, safer, writers, mf >>

\* countPages: ioutil.ReadDir(p.temp) fails
countFail(l) ==
  /\ proc = "running" /\ taskPc[l] = "count"
  /\ phracked.temp \notin dirs
  /\ cleanFatal
  /\ Goto(l, "fatal")
  /\ UNCHANGED << phracked, chans, fdata, body, uiVars, userEvents, uiPc, supVars,
                  sendCh, copyErr, cp, ut, emitted, doneAge, nInit, safer, writers, mf >>

\* the lines initSide writes: "load" and the page numbers 1..pages
SideLines(pages) == <<LoadLine>> \o [i \in 1..pages |-> Itoa(i)]

\* buildUI: initSide(), up to its call of updateMainFile("1.txt"): the side
\* view is cleared and written
initSide(l) ==
  /\ proc = "running" /\ taskPc[l] = "side"
  /\ side' = SideLines(phracked.pages)
  /\ writers' = writers \cup {"task"}
  /\ Goto(l, "main_read")
  /\ UNCHANGED << phracked, chans, fsVars, fdata, body, views, cur, sidePos, mainTitle,
                  mainBody, shown, statusCur, erased, userEvents, uiPc, proc, supVars,
                  sendCh, copyErr, cp, ut, mf, emitted, doneAge, nInit, safer >>

\* initSide: updateMainFile("1.txt"), up to the return of ioutil.ReadFile
initSideRead(l) ==
  /\ proc = "running" /\ taskPc[l] = "main_read"
  /\ mf' = [mf EXCEPT ![l] = ReadFile(Page1)]
  /\ Goto(l, "main_write")
  /\ UNCHANGED << phracked, chans, fsVars, fdata, body, uiVars, userEvents, uiPc, proc,
                  supVars, sendCh, copyErr, cp, ut, emitted, doneAge, nInit, safer,
                  writers >>

\* initSide: updateMainFile writes the main view; initSide and buildUI return
initSideMain(l) ==
  /\ proc = "running" /\ taskPc[l] = "main_write"
  /\ updateMainFile(mf[l], "task")
  /\ mf' = [mf EXCEPT ![l] = NoRead]
  /\ Goto(l, AfterStage("index"))
  /\ UNCHANGED << phracked, chans, fsVars, fdata, body, views, side, sidePos, mainTitle,
                  shown, statusCur, erased, userEvents, uiPc, proc, supVars, sendCh,
                  copyErr, cp, ut, emitted, doneAge, nInit, safer >>

\* the goroutine of load(): p.status <- "done"
doneSend(l) ==
  /\ proc = "running" /\ taskPc[l] = "done_send"
  /\ Send(l, MsgDone, "finished")
  /\ doneAge' = IF taskPc'[l] = "finished" /\ supPc[l] # "done"
                THEN [doneAge EXCEPT ![l] = 0] ELSE doneAge
  /\ UNCHANGED << phracked, fsVars, fdata, body, uiVars, userEvents, uiPc, proc,
                  supVars, copyErr, cp, ut, nInit, safer, writers, mf >>

\* ---- the program

\* every step of every goroutine, with any user and any outcome of the
\* network and the disk
Next ==
  \/ GoInit
  \/ UiMain
  \/ UiInitFail
  \/ UiLayout
  \/ mainLoopFail
  \/ nextView
  \/ cursorDown
  \/ cursorUp
  \/ cursorSelectLoad
  \/ cursorSelectPage
  \/ cursorSelectWrite
  \/ loadIssue
  \/ initStatus
  \/ initIssue
  \/ initTemp
  \/ initFilePath
  \/ initTgz
  \/ logFatal
  \/ updateStatus
  \/ quit
  \/ quitSend
  \/ shutdownClean
  \/ shutdownExit
  \/ Tick
  \/ \E l \in Loads : loadStart(l)
  \/ \E l \in Loads : loadStartFail(l)
  \/ \E l \in Loads : loadRecv(l)
  \/ \E l \in Loads : loadRecvDone(l)
  \/ \E l \in Loads : loadTimeout(l)
  \/ \E l \in Loads : fetchSend(l)
  \/ \E l \in Loads : fetchGet(l)
  \/ \E l \in Loads : fetchFail(l)
  \/ \E l \in Loads : fetchDone(l)
  \/ \E l \in Loads : writeCopy(l)
  \/ \E l \in Loads : writeChunk(l)
  \/ \E l \in Loads : writeCopyFail(l)
  \/ \E l \in Loads : writeSend(l)
  \/ \E l \in Loads : unpackSend(l)
  \/ \E l \in Loads : untarOpen(l)
  \/ \E l \in Loads : untarOpenFail(l)
  \/ \E l \in Loads : untarEntry(l)
  \/ \E l \in Loads : untarCopy(l)
  \/ \E l \in Loads : untarEof(l)
  \/ \E l \in Loads : untarFail(l)
  \/ \E l \in Loads : untarCopyFail(l)
  \/ \E l \in Loads : unpackDone(l)
  \/ \E l \in Loads : buildSend(l)
  \/ \E l \in Loads : count(l)
  \/ \E l \in Loads : countFail(l)
  \/ \E l \in Loads : initSide(l)
  \/ \E l \in Loads : initSideRead(l)
  \/ \E l \in Loads : initSideMain(l)
  \/ \E l \in Loads : doneSend(l)

\* The program.  With a reload in flight its state space is too large to be
\* searched to the end; the properties are checked under the specifications
\* below, each of which is Spec with a user, a terminal, a network, a disk
\* and a scheduler that are restricted as its comment says.  Each of them
\* has every step of the program that can be taken under its restriction.
Spec == Init /\ [][Next]_vars

\* nothing is running and nothing is pending
Quiet ==
  /\ userEvents = <<>>
  /\ \A l \in Loads : supPc[l] \in {"idle", "done"} /\ taskPc[l] \in {"idle", "finished"}

\* ---- SpecCalm: the program with a user who confirms the prompt only when
\* the load before has finished and its status strings are shown.  The
\* scheduler is timely and the functions handed to g.Execute reach the main
\* loop in the order of the calls.  Nothing else is restricted: any argument,
\* any key at any time, quit, the clock, and every failure of the terminal,
\* the network and the disk.

NextCalm ==
  \/ GoInit
  \/ UiMain
  \/ UiInitFail
  \/ UiLayout
  \/ mainLoopFail
  \/ nextView
  \/ cursorDown
  \/ cursorUp
  \/ cursorSelectLoad
  \/ cursorSelectPage
  \/ cursorSelectWrite
  \/ Quiet /\ loadIssue
  \/ initStatus
  \/ initIssue
  \/ initTemp
  \/ initFilePath
  \/ initTgz
  \/ logFatal
  \/ updateStatusInOrder
  \/ quit
  \/ quitSend
  \/ shutdownClean
  \/ shutdownExit
  \/ Timely /\ Tick
  \/ \E l \in Loads : loadStart(l)
  \/ \E l \in Loads : loadStartFail(l)
  \/ \E l \in Loads : loadRecv(l)
  \/ \E l \in Loads : loadRecvDone(l)
  \/ \E l \in Loads : loadTimeout(l)
  \/ \E l \in Loads : fetchSend(l)
  \/ \E l \in Loads : fetchGet(l)
  \/ \E l \in Loads : fetchFail(l)
  \/ \E l \in Loads : fetchDone(l)
  \/ \E l \in Loads : writeCopy(l)
  \/ \E l \in Loads : writeChunk(l)
  \/ \E l \in Loads : writeCopyFail(l)
  \/ \E l \in Loads : writeSend(l)
  \/ \E l \in Loads : unpackSend(l)
  \/ \E l \in Loads : untarOpen(l)
  \/ \E l \in Loads : untarOpenFail(l)
  \/ \E l \in Loads : untarEntry(l)
  \/ \E l \in Loads : untarCopy(l)
  \/ \E l \in Loads : untarEof(l)
  \/ \E l \in Loads : untarFail(l)
  \/ \E l \in Loads : untarCopyFail(l)
  \/ \E l \in Loads : unpackDone(l)
  \/ \E l \in Loads : buildSend(l)
  \/ \E l \in Loads : count(l)
  \/ \E l \in Loads : countFail(l)
  \/ \E l \in Loads : initSide(l)
  \/ \E l \in Loads : initSideRead(l)
  \/ \E l \in Loads : initSideMain(l)
  \/ \E l \in Loads : doneSend(l)

SpecCalm == Init /\ [][NextCalm]_vars

\* the command line has no argument
NoArg == { <<"1">> }

\* the server answers with an archive of one page
OnePage == { <<File(Page1)>> }

\* ---- SpecTimed: the program with the clock and a reload while the first
\* load is still running.  The program is started without an argument; the
\* user presses no key before the first pipeline has written the page list,
\* then Tab and Enter at any time until the reload is confirmed and no key
\* after that, and never a cursor key or Ctrl-C, so that Enter is on the
\* first line of the side view, "load", or on the prompt.  The scheduler is
\* timely and the functions handed to g.Execute reach the main loop in the
\* order of the calls.  TempDir and os.Create may fail; the terminal (g.Init
\* and g.MainLoop return no error), the network and the other calls of the
\* disk do not, and the server answers with an archive of one page or with a
\* stream that is no archive.

\* the first pipeline has written the page list to the side view
ListThere == Line(side, sidePos) = LoadLine

NextTimed ==
  \/ GoInitFrom(NoArg)
  \/ UiMain
  \/ UiLayout
  \/ nInit < MaxLoads /\ ListThere /\ nextView
  \/ nInit < MaxLoads /\ cursorSelectLoad
  \/ loadIssue
  \/ initStatus
  \/ initIssue
  \/ initTemp
  \/ initFilePath
  \/ initTgz
  \/ logFatal
  \/ updateStatusInOrder
  \/ Timely /\ Tick
  \/ \E l \in Loads : loadStart(l)
  \/ \E l \in Loads : loadStartFail(l)
  \/ \E l \in Loads : loadRecv(l)
  \/ \E l \in Loads : loadRecvDone(l)
  \/ \E l \in Loads : loadTimeout(l)
  \/ \E l \in Loads : fetchSend(l)
  \/ \E l \in Loads : fetchGetFrom(l, OnePage \cup { <<Bad>> })
  \/ \E l \in Loads : fetchDone(l)
  \/ \E l \in Loads : writeCopy(l)
  \/ \E l \in Loads : writeChunk(l)
  \/ \E l \in Loads : writeSend(l)
  \/ \E l \in Loads : unpackSend(l)
  \/ \E l \in Loads : untarOpen(l)
  \/ \E l \in Loads : untarEntry(l)
  \/ \E l \in Loads : untarCopy(l)
  \/ \E l \in Loads : untarEof(l)
  \/ \E l \in Loads : untarFail(l)
  \/ \E l \in Loads : unpackDone(l)
  \/ \E l \in Loads : buildSend(l)
  \/ \E l \in Loads : count(l)
  \/ \E l \in Loads : initSide(l)
  \/ \E l \in Loads : initSideRead(l)
  \/ \E l \in Loads : initSideMain(l)
  \/ \E l \in Loads : doneSend(l)

SpecTimed == Init /\ [][NextTimed]_vars

\* ---- SpecRace: two reloads, the second while a load is in flight

\* the user lets the first load finish before touching a key
UserWaits == nInit = 1 => Quiet

\* The program is started without an argument.  The user reloads up to
\* MaxRaceLoads - 1 times, the first time after the first load has finished,
\* and presses no other key than Tab and Enter; the cursor of the side view
\* stays on its first line, which is "load" from the end of the first load
\* on, so that Enter opens the prompt or confirms it and never selects a
\* page.  No second passes, and the functions handed to g.Execute reach the
\* main loop in the order of the calls.  The terminal may fail at any time;
\* the network does not fail, and of the disk only the calls fail that find
\* the scratch directory removed; the server answers every request but that
\* of the last load.
NextRace ==
  \/ GoInitFrom(NoArg)
  \/ UiMain
  \/ UiInitFail
  \/ UiLayout
  \/ mainLoopFail
  \/ UserWaits /\ nextView
  \/ UserWaits /\ cursorSelectLoad
  \/ UserWaits /\ loadIssueUpTo(MaxRaceLoads)
  \/ initStatus
  \/ initIssue
  \/ initTemp
  \/ initFilePath
  \/ initTgz
  \/ logFatal
  \/ updateStatusInOrder
  \/ \E l \in Loads : loadStart(l)
  \/ \E l \in Loads : loadStartFail(l)
  \/ \E l \in Loads : loadRecv(l)
  \/ \E l \in Loads : loadRecvDone(l)
  \/ \E l \in Loads : fetchSend(l)
  \/ \E l \in 1..MaxLoads : fetchGetFrom(l, GoodArchive)
  \/ \E l \in Loads : fetchDone(l)
  \/ \E l \in Loads : writeCopy(l)
  \/ \E l \in Loads : writeChunk(l)
  \/ \E l \in Loads : writeSend(l)
  \/ \E l \in Loads : unpackSend(l)
  \/ \E l \in Loads : untarOpen(l)
  \/ \E l \in Loads : untarOpenFail(l)
  \/ \E l \in Loads : untarEntry(l)
  \/ \E l \in Loads : untarCopy(l)
  \/ \E l \in Loads : untarEof(l)
  \/ \E l \in Loads : untarFail(l)
  \/ \E l \in Loads : unpackDone(l)
  \/ \E l \in Loads : buildSend(l)
  \/ \E l \in Loads : count(l)
  \/ \E l \in Loads : countFail(l)
  \/ \E l \in Loads : initSide(l)
  \/ \E l \in Loads : initSideRead(l)
  \/ \E l \in Loads : initSideMain(l)
  \/ \E l \in Loads : doneSend(l)

SpecRace == Init /\ [][NextRace]_vars

\* ---- SpecCount: the program with a server that answers with any archive

\* names an archive may hold: pages, a name that is only the suffix, a
\* directory with the suffix, the suffix in the middle, the suffix without its
\* dot, no suffix
Pool == << File(Page1), File(Page2), File(DotTxt), Dir(<<"d">> \o DotTxt),
           File(<<"a">> \o DotTxt \o <<".", "b", "a", "k">>), File(<<"t", "x", "t">>),
           Dir(SubDir) >>

\* the entries of Pool that the mask selects, in the order of Pool
RECURSIVE Pick(_, _)
Pick(mask, i) ==
  IF i > Len(Pool) THEN <<>>
  ELSE (IF mask[i] THEN <<Pool[i]>> ELSE <<>>) \o Pick(mask, i + 1)

\* the archives of any entries of Pool
PoolArchives == { Pick(mask, 1) : mask \in [1..Len(Pool) -> BOOLEAN] }

\* The program is started without an argument and the server answers with
\* an archive of any entries of Pool.  The user presses Tab and Ctrl-C at any
\* time and no other key, so that there is no reload.  The scheduler is
\* timely and the functions handed to g.Execute reach the main loop in the
\* order of the calls.  The terminal may fail at any time; the network does
\* not fail, and of the disk only the calls fail that find the scratch
\* directory removed.
NextCount ==
  \/ GoInitFrom(NoArg)
  \/ UiMain
  \/ UiInitFail
  \/ UiLayout
  \/ mainLoopFail
  \/ nextView
  \/ logFatal
  \/ updateStatusInOrder
  \/ quit
  \/ quitSend
  \/ shutdownClean
  \/ shutdownExit
  \/ Timely /\ Tick
  \/ \E l \in Loads : loadStart(l)
  \/ \E l \in Loads : loadStartFail(l)
  \/ \E l \in Loads : loadRecv(l)
  \/ \E l \in Loads : loadRecvDone(l)
  \/ \E l \in Loads : loadTimeout(l)
  \/ \E l \in Loads : fetchSend(l)
  \/ \E l \in Loads : fetchGetFrom(l, PoolArchives)
  \/ \E l \in Loads : fetchDone(l)
  \/ \E l \in Loads : writeCopy(l)
  \/ \E l \in Loads : writeChunk(l)
  \/ \E l \in Loads : writeSend(l)
  \/ \E l \in Loads : unpackSend(l)
  \/ \E l \in Loads : untarOpen(l)
  \/ \E l \in Loads : untarOpenFail(l)
  \/ \E l \in Loads : untarEntry(l)
  \/ \E l \in Loads : untarCopy(l)
  \/ \E l \in Loads : untarEof(l)
  \/ \E l \in Loads : untarFail(l)
  \/ \E l \in Loads : unpackDone(l)
  \/ \E l \in Loads : buildSend(l)
  \/ \E l \in Loads : count(l)
  \/ \E l \in Loads : countFail(l)
  \/ \E l \in Loads : initSide(l)
  \/ \E l \in Loads : initSideRead(l)
  \/ \E l \in Loads : initSideMain(l)
  \/ \E l \in Loads : doneSend(l)

SpecCount == Init /\ [][NextCount]_vars

\* ---- SpecPrompt: the program with a user who types any of several texts
\* into the prompt, at any time.  No argument; the user presses Tab and
\* Enter at any time until the reload is confirmed and no key after that, and
\* never a cursor key or Ctrl-C, so that Enter is on the first line of the
\* side view ("Loading...", later "load") or on the prompt.  No second
\* passes, and the functions handed to g.Execute reach the main loop in the
\* order of the calls.  The terminal may fail at any time, and so may TempDir
\* and os.Create; the network does not fail, and of the other calls of the
\* disk only those that find the scratch directory removed; the server
\* answers with an archive of one page.

\* texts of the prompt: with letters, without any digit, empty, with a
\* leading zero, with the newline of the view buffer
TypedAll == { <<"2", "a", "0">>, <<"a", "b">>, <<>>, <<"0", "7">>, <<"x", "1", NL>> }

NextPrompt ==
  \/ GoInitFrom(NoArg)
  \/ UiMain
  \/ UiInitFail
  \/ UiLayout
  \/ mainLoopFail
  \/ nInit < MaxLoads /\ nextView
  \/ nInit < MaxLoads /\ cursorSelectLoad
  \/ nInit < MaxLoads /\ cursorSelectPage
  \/ cursorSelectWrite
  \/ loadIssueFrom(MaxLoads, TypedAll)
  \/ initStatus
  \/ initIssue
  \/ initTemp
  \/ initFilePath
  \/ initTgz
  \/ logFatal
  \/ updateStatusInOrder
  \/ \E l \in Loads : loadStart(l)
  \/ \E l \in Loads : loadStartFail(l)
  \/ \E l \in Loads : loadRecv(l)
  \/ \E l \in Loads : loadRecvDone(l)
  \/ \E l \in Loads : fetchSend(l)
  \/ \E l \in Loads : fetchGetFrom(l, OnePage)
  \/ \E l \in Loads : fetchDone(l)
  \/ \E l \in Loads : writeCopy(l)
  \/ \E l \in Loads : writeChunk(l)
  \/ \E l \in Loads : writeSend(l)
  \/ \E l \in Loads : unpackSend(l)
  \/ \E l \in Loads : untarOpen(l)
  \/ \E l \in Loads : untarOpenFail(l)
  \/ \E l \in Loads : untarEntry(l)
  \/ \E l \in Loads : untarCopy(l)
  \/ \E l \in Loads : untarEof(l)
  \/ \E l \in Loads : untarFail(l)
  \/ \E l \in Loads : unpackDone(l)
  \/ \E l \in Loads : buildSend(l)
  \/ \E l \in Loads : count(l)
  \/ \E l \in Loads : countFail(l)
  \/ \E l \in Loads : initSide(l)
  \/ \E l \in Loads : initSideRead(l)
  \/ \E l \in Loads : initSideMain(l)
  \/ \E l \in Loads : doneSend(l)

SpecPrompt == Init /\ [][NextPrompt]_vars

\* ---- SpecQuit: the program with three loads and quit.  The program is
\* started without an argument; the user presses Tab and Enter as soon as
\* the latest load has shown its page and the main loop has nothing left to
\* run, presses Ctrl-C when the last pipeline has finished, and presses no
\* cursor key: the cursor of the side view stays on its first line, which is
\* "load" by then, so that Enter opens the prompt or confirms it and never
\* selects a page.  The scheduler is timely and the functions handed to
\* g.Execute reach the main loop in the order of the calls.  TempDir and
\* os.Create may fail; the terminal (g.Init and g.MainLoop return no error),
\* the network and the other calls of the disk do not, and the server answers
\* with an archive of one page.

\* the pipeline of the latest load has written the side view and waits in
\* the send of its "done", and the main loop has no function left to run
Eager ==
  /\ nInit >= 1 /\ taskPc[nInit] = "done_send" /\ sendCh[nInit].ch # 0
  /\ userEvents = <<>>

\* the pipeline of the last load has finished
LastFinished == nInit = MaxRaceLoads /\ taskPc[nInit] = "finished"

NextQuit ==
  \/ GoInitFrom(NoArg)
  \/ UiMain
  \/ UiLayout
  \/ Eager /\ nextView
  \/ Eager /\ cursorSelectLoad
  \/ Eager /\ loadIssueUpTo(MaxRaceLoads)
  \/ initStatus
  \/ initIssue
  \/ initTemp
  \/ initFilePath
  \/ initTgz
  \/ logFatal
  \/ updateStatusInOrder
  \/ LastFinished /\ quit
  \/ quitSend
  \/ shutdownClean
  \/ shutdownExit
  \/ Timely /\ Tick
  \/ \E l \in Loads : loadStart(l)
  \/ \E l \in Loads : loadStartFail(l)
  \/ \E l \in Loads : loadRecv(l)
  \/ \E l \in Loads : loadRecvDone(l)
  \/ \E l \in Loads : loadTimeout(l)
  \/ \E l \in Loads : fetchSend(l)
  \/ \E l \in Loads : fetchGetFrom(l, OnePage)
  \/ \E l \in Loads : fetchDone(l)
  \/ \E l \in Loads : writeCopy(l)
  \/ \E l \in Loads : writeChunk(l)
  \/ \E l \in Loads : writeSend(l)
  \/ \E l \in Loads : unpackSend(l)
  \/ \E l \in Loads : untarOpen(l)
  \/ \E l \in Loads : untarEntry(l)
  \/ \E l \in Loads : untarCopy(l)
  \/ \E l \in Loads : untarEof(l)
  \/ \E l \in Loads : unpackDone(l)
  \/ \E l \in Loads : buildSend(l)
  \/ \E l \in Loads : count(l)
  \/ \E l \in Loads : initSide(l)
  \/ \E l \in Loads : initSideRead(l)
  \/ \E l \in Loads : initSideMain(l)
  \/ \E l \in Loads : doneSend(l)

SpecQuit == Init /\ [][NextQuit]_vars

\* ---- properties

IsPrefix(a, b) == Len(a) <= Len(b) /\ \A i \in 1..Len(a) : a[i] = b[i]

\* C1: when the shutdown of main() has released the session (wg.Wait returned
\* and the deferred clean() removed the scratch directory), no pipeline is in
\* its persist or unpack stage.
C1_ReleaseAfterPipeline ==
  uiPc = "cleaned" => \A l \in Loads : StageOf(taskPc[l]) \notin {"persist", "unpack"}

\* C2: once the pipeline of a load has sent "done", the load() of that load
\* exits within one polling interval, and no timer of it fires after the send.
C2_DoneEndsLoop ==
  \A l \in Loads :
    doneAge[l] >= 0 => /\ doneAge[l] <= TicksPerSec
                       /\ timer[l] = 0 => doneAge[l] = 0

\* C3: updateStatus writes the status strings of one load to the status view
\* in the order in which its pipeline sent them.
C3_ShownInEmissionOrder ==
  \A l \in Loads :
    \A i, j \in 1..Len(shown[l]) :
      i < j => \E m, n \in 1..Len(emitted[l]) :
                 m < n /\ emitted[l][m] = shown[l][i] /\ emitted[l][n] = shown[l][j]

\* C4: every write to a view is made by the goroutine of the main loop.
C4_ViewsWrittenOnUiThread == writers \subseteq {"ui"}

\* C5: at most one scratch directory exists.
C5_OneScratchDir == Cardinality(dirs) <= 1

\* C6: clean() is idempotent and never panics, in every state of the session:
\* it changes nothing before the first init, a second clean() changes nothing,
\* and the clean() of cleanFatal after a failed TempDir or os.Create in init
\* leaves a state that a further clean() does not change.
C6_CleanIdempotent ==
  /\ proc # "panic"
  /\ LET r1 == clean(phracked, FS)
         r2 == clean(phracked, r1)
     IN /\ ~r1.panic /\ ~r2.panic
        /\ r2 = r1
        /\ phracked.temp = 0 => r1 = FS
  /\ nInit < MaxRaceLoads =>
       \A tempOk, createOk \in BOOLEAN :
         LET r == init(phracked, FS, nInit, <<"7">>, tempOk, createOk)
         IN /\ ~r.fs.panic
            /\ r.fatal => clean(r.p, r.fs) = r.fs

\* C6: init failed at os.Create in a reload, so that clean() ran at the start
\* of init and again, with a nil handle, in cleanFatal.
C6_Witness ==
  /\ proc = "fatal" /\ nInit = 2
  /\ phracked.temp # 0 /\ phracked.tgz = 0
  /\ fopen[1] = "closed" /\ dirs = {}

\* C7: once io.Copy has failed, the pipeline sends no further status string,
\* and when the process has ended in cleanFatal no scratch directory is left.
C7_FailureStopsPipeline ==
  /\ \A l \in Loads :
       copyErr[l] => \A i \in 1..Len(emitted[l]) : emitted[l][i][1] # "Wrote to "
  /\ proc = "fatal" => dirs = {}

StageOrder == <<"fetch", "persist", "unpack", "index">>

\* the i-th status string of a load
Expected(i, t) ==
  CASE i = 1 -> t[1] = "Fetching " /\ t[Len(t)] = "..."
    [] i = 2 -> t = MsgDownloaded
    [] i = 3 -> t[1] = "Wrote to " /\ t[Len(t)] = NL
    [] i = 4 -> t = MsgUnpacking
    [] i = 5 -> t = MsgUnpacked
    [] i = 6 -> t = MsgBuilding
    [] i = 7 -> t = MsgDone
    [] OTHER -> FALSE

\* C8: a pipeline enters its stages in the order fetch, persist, unpack, index,
\* each once; what it has sent is a prefix of the seven status strings, and all
\* seven, ending in "done", when it has finished.
C8_StagesInOrder ==
  \A l \in Loads :
    /\ IsPrefix(stages[l], StageOrder)
    /\ \A i \in 1..Len(emitted[l]) : Expected(i, emitted[l][i])
    /\ taskPc[l] = "finished" => Len(emitted[l]) = 7 /\ stages[l] = StageOrder

\* C8: the pipelines of a first load and of a reload have both finished.
C8_Witness == taskPc[1] = "finished" /\ taskPc[2] = "finished"

\* C9: a filler is handed to g.Execute, which appends it to the status
\* display, one at a time and only when a full second has passed since the
\* display was last fed, by a status string that a load() received or by the
\* filler before.  What is fed in the instant of the timeout itself, after
\* the timer has fired, is not held against the filler.
C9_OneFillerPerSilentSecond ==
  [][ fillers' # fillers =>
        /\ fillers' = fillers + 1
        /\ quiet # 0 => quiet = TicksPerSec
    ]_vars

\* the names of Pool that end in ".txt"
TxtNames == { Page1, Page2, DotTxt, <<"d">> \o DotTxt }

C11_MissingPageRecoverable ==
  [][ /\ (uiPc = "loop" /\ uiPc' = "page_write") =>
           /\ mf'[0].st = "err" <=> ~CanRead(phracked, Line(side, sidePos) \o DotTxt)
           /\ proc' = "running"
           /\ phracked' = phracked
           /\ UNCHANGED << fsVars, fdata, body, chans, supVars, taskVars, mainBody >>
      /\ (uiPc = "page_write" /\ uiPc' # uiPc /\ mf[0].st = "err") =>
           /\ mainBody'.kind = "cant"
           /\ proc' = "running" /\ uiPc' = "loop"
           /\ phracked' = phracked
           /\ UNCHANGED << fsVars, fdata, body, chans, supVars, taskVars >>
    ]_vars

\* C11: the user moved past the last line of the side view and selected it
\* while the first pipeline was writing the archive; no pipeline has written
\* to a view yet.
C11_Witness ==
  /\ mainBody.kind = "cant" /\ "task" \notin writers
  /\ sidePos = MaxPos /\ StageOf(taskPc[1]) = "persist"
  /\ proc = "running" /\ uiPc = "loop"

\* the digits of a text, in their order
DigitsOf(t) ==
  SelectSeq(t, LAMBDA c : c \in {"0", "1", "2", "3", "4", "5", "6", "7", "8", "9"})

\* the statements of init that loadIssue has still to run
InitPcs == {"init_status", "init_issue", "init_temp", "init_path", "init_tgz"}

\* a step of the main loop that handles no key: g.MainLoop returns an error,
\* or Ctrl-C is handled
NotEnter == uiPc' \in {"fatal", "quit"}

\* Enter on the prompt keeps the digits of one of the texts, "2a0" giving
\* "20" and a text without digits giving "", deletes the prompt and goes on
\* to init whatever the digits; init makes them the issue of the session and
\* the locator that of this issue; and when init has returned, one more
\* load() is started for that issue.
Sanitized ==
  /\ (uiPc = "loop" /\ cur = "msg" /\ uiPc' # uiPc /\ ~NotEnter) =>
       /\ \E typed \in TypedAll : safer' = DigitsOf(typed)
       /\ "msg" \notin views'
       /\ uiPc' = "init_status" /\ proc' = "running"
  /\ (uiPc = "init_issue" /\ uiPc' # uiPc) =>
       /\ phracked'.issue = safer
       /\ phracked'.url = UrlBase \o safer \o TarGz
  /\ (uiPc = "init_tgz" /\ uiPc' = "loop") =>
       /\ phracked'.issue = phracked.issue
       /\ phracked'.url = UrlBase \o phracked.issue \o TarGz
       /\ phracked'.wg = phracked.wg + 1
       /\ supPc[nInit] = "idle" /\ supPc'[nInit] = "start"

\* C12, as amended: Enter on the prompt keeps the digits of the text and
\* calls init with them, whatever they are; init goes on to its end and one
\* more load() is started, unless ioutil.TempDir or os.Create fails and init
\* ends in cleanFatal.
C12_ReloadUnlessResetFails ==
  [][ /\ Sanitized
      /\ (uiPc \in InitPcs /\ uiPc' # uiPc) =>
           /\ proc' = "running"
           /\ \/ uiPc' \in InitPcs \cup {"loop"}
              \/ uiPc \in {"init_temp", "init_tgz"} /\ uiPc' = "fatal"
    ]_vars

\* C12, as stated: Enter on the prompt keeps the digits of the text and
\* calls init with them, whatever they are, and init always goes on to its
\* end, where one more load() is started.
C12_ReloadAlways ==
  [][ /\ Sanitized
      /\ (uiPc \in InitPcs /\ uiPc' # uiPc) =>
           /\ proc' = "running"
           /\ uiPc' \in InitPcs \cup {"loop"}
    ]_vars

\* C12: the prompt was confirmed with a text without digits, and the
\* pipeline of that reload has sent its "Fetching" for the issue "".
C12_Witness ==
  /\ nInit = 2 /\ phracked.issue = <<>>
  /\ emitted[2] # <<>> /\ emitted[2][1] = <<"Fetching ">> \o UrlBase \o TarGz \o <<"...">>

\* an init() has returned in this step, and not in cleanFatal
InitReturned ==
  /\ \/ uiPc = "init" /\ uiPc' = "main"
     \/ uiPc = "init_tgz" /\ uiPc' = "loop"
  /\ proc' = "running"

\* ioutil.TempDir of an init() has returned without error in this step
TempDirReturned ==
  \/ uiPc = "init" /\ uiPc' = "main"
  \/ uiPc = "init_temp" /\ uiPc' = "init_path"

\* the locator and the archive path init(id) has to leave, for the id it left
LocatorAndPath ==
  /\ phracked'.url = <<"http://www.phrack.org/archives/tgz/phrack">>
                       \o phracked'.issue \o <<".", "t", "a", "r", ".", "g", "z">>
  /\ phracked'.filePath = [dir |-> phracked'.temp,
                           name |-> phracked'.issue \o <<".", "t", "a", "r", ".", "g", "z">>]
  /\ phracked'.temp = nInit' /\ phracked'.temp \in dirs'

\* C13, as amended: when init(id) returns, the locator is the template with
\* id, the archive path is id.tar.gz in the scratch directory this call has
\* made, a directory that did not exist before, and that directory holds the
\* new, empty and open archive file and nothing else.
C13_ResetLocatorAndDir ==
  [][ /\ TempDirReturned => phracked'.temp = nInit' /\ phracked'.temp \notin dirs
      /\ InitReturned =>
           /\ LocatorAndPath
           /\ entries'[phracked'.temp] = { File(phracked'.filePath.name) }
           /\ phracked'.tgz = nInit' /\ fopen'[phracked'.tgz] = "open"
           /\ fdata'[phracked'.tgz] = <<>>
    ]_vars

\* C13, as stated: when init(id) returns, the locator and the archive path
\* are as above and the scratch directory is empty.
C13_ResetLeavesEmptyDir ==
  [][ InitReturned => LocatorAndPath /\ entries'[phracked'.temp] = {} ]_vars

\* C13: the init of a reload with the identifier "07" has returned and its
\* load() has not started yet.
C13_Witness ==
  /\ nInit = 2 /\ supPc[2] = "start" /\ proc = "running"
  /\ phracked.issue = <<"0", "7">>
  /\ entries[2] = { File(<<"0", "7">> \o TarGz) }

\* the pipeline of l has been started and has not ended
Active(l) == taskPc[l] \notin {"idle", "finished", "fatal", "dead"}

\* C14: Enter on the prompt takes effect whatever the pipelines are doing, and
\* every statement of loadIssue and of its init leaves every pipeline and
\* every load() loop of the loads before where it was: nothing is cancelled.
C14_ReloadKeepsPipelines ==
  [][ (nInit >= 1 /\ uiPc' # uiPc /\ (uiPc \in InitPcs \/ uiPc' \in InitPcs)) =>
        /\ \A l \in Loads : taskPc'[l] = taskPc[l]
        /\ \A l \in Loads : l # nInit' => supPc'[l] = supPc[l] /\ selCh'[l] = selCh[l]
        /\ sendCh' = sendCh /\ ut' = ut /\ cp' = cp
    ]_vars

\* C14: two pipelines are active at once on the one session record: the
\* pipeline of the second load, started in the scratch directory 2, has
\* counted the pages of the scratch directory of the third load and written
\* p.pages, while the pipeline of the third load waits for its download.
C14_Witness ==
  /\ Active(2) /\ Active(3)
  /\ taskPc[2] = "side" /\ taskPc[3] = "fetch_get"
  /\ ut[2].target = 2 /\ phracked.temp = 3
  /\ phracked.pages = countPages(entries[3])

\* C15: when the process has ended, by the return of main or by cleanFatal,
\* no scratch directory exists.
C15_NoDirAfterExit == proc \in {"exit0", "fatal", "panic"} => dirs = {}

\* load() of l has been started and has not returned
LoopRuns(l) == supPc[l] \in {"start", "select"}

\* a channel some running load() still receives from: the one its select
\* waits on, or p.status, which every later select waits on
Drained(c) == c = phracked.status \/ \E l \in Loads : supPc[l] = "select" /\ selCh[l] = c

\* the pipeline of l will send nothing any more: it has ended, it stands in
\* log.Fatal, or it waits in a send on a full channel that no load() receives
\* from
SendsNoMore(l) ==
  \/ taskPc[l] \in {"finished", "fatal", "dead"}
  \/ taskPc[l] = "idle" /\ supPc[l] # "start"
  \/ /\ taskPc[l] \in SendPcs /\ sendCh[l].ch # 0
     /\ Len(chans[sendCh[l].ch]) = ChanCap /\ ~Drained(sendCh[l].ch)

\* no "done" will reach a running load(): none is in a channel that is still
\* received from, and no pipeline will send one
NoDoneToCome ==
  /\ \A l \in Loads : SendsNoMore(l)
  /\ \A c \in Loads : Drained(c) => \A i \in 1..Len(chans[c]) : chans[c][i].text # MsgDone

\* C19: without quit and without a call of cleanFatal, a load() that has not
\* returned can still get a "done": it is never left running with no "done"
\* to come.
C19_EveryLoadCanReturn ==
  (proc = "running" /\ uiPc = "loop" /\ ~InLogFatal) =>
    ~(NoDoneToCome /\ \E l \in Loads : LoopRuns(l))

\* C16: unless a goroutine has called cleanFatal, after quit has sent its
\* "done" and main waits in wg.Wait, every load() that has not returned can
\* still get a "done"; and the send of quit is never left waiting on a full
\* channel that no load() receives from.
C16_QuitCanFinish ==
  /\ (proc = "running" /\ uiPc = "wait" /\ ~InLogFatal) =>
       ~(NoDoneToCome /\ \E l \in Loads : LoopRuns(l))
  /\ (proc = "running" /\ uiPc = "quit" /\ ~InLogFatal) =>
       ~(/\ Len(chans[phracked.status]) = ChanCap
         /\ \A l \in Loads : ~LoopRuns(l))

\* the pipeline of l has sent its "Wrote to <path>"
SentWrote(l) == \E i \in 1..Len(emitted[l]) : emitted[l][i][1] = "Wrote to "

\* C17: a pipeline that has sent "Wrote to <path>" has copied the response
\* body into the archive file without error.
C17_WroteOnlyAfterCopy == \A l \in Loads : SentWrote(l) => ~copyErr[l]

\* the pipeline of l has not yet returned from countPages
NotCounted(l) ==
  taskPc[l] \in {"idle", "fetch_send", "fetch_get", "fetch_done", "write_copy",
                 "write_chunk", "write_send", "unpack_send", "untar_open", "untar_next",
                 "untar_copy", "unpack_done", "build_send", "count"}

\* C18: from the return of the latest init until the pipeline of that load
\* has counted the pages, p.pages is zero.
C18_PagesZeroUntilIndexed ==
  (/\ nInit >= 1 /\ proc = "running"
   /\ uiPc \notin InitPcs \cup {"fatal"}
   /\ NotCounted(nInit)) =>
    phracked.pages = 0

\* the status strings of l other than "done", in the order they were sent
NonTerminal(l) == SelectSeq(emitted[l], LAMBDA t : t # MsgDone)

\* C20: when MainLoop has returned after quit, updateStatus has written every
\* status string other than "done" that a pipeline has sent, once.
C20_EveryMessageShownOnce ==
  uiPc \in {"wait", "cleaned", "exited"} =>
    \A l \in Loads :
      /\ Len(shown[l]) = Len(NonTerminal(l))
      /\ \A i \in 1..Len(NonTerminal(l)) :
           \E j \in 1..Len(shown[l]) : shown[l][j] = NonTerminal(l)[i]
====
